---- MODULE Spec2Model ----
(***************************************************************************)
(* Model of the Black-Scholes pricing helpers of src/src/data.py and       *)
(* src/src/model.py.                                                       *)
(*                                                                         *)
(* Every function of the program is a pure function of its arguments and   *)
(* of the data handed back by the market-data provider.  A behaviour of the *)
(* model is one call: Init draws which function is called (fn) and its     *)
(* arguments (args), the function's action computes the outcome (ret).     *)
(* BlackScholesModel is an object: args holds its fields, and call_price   *)
(* and put_price are two actions on it, in the order main() calls them.     *)
(*                                                                         *)
(* Numbers.  The yield interpolation is binary floating point arithmetic;  *)
(* a float is modelled as [m, e], the number m * 2^e, and every operation  *)
(* is rounded to nearest, ties to even, to MantBits significant bits, as   *)
(* IEEE-754 does with 53.  Integer constants of the code (100.0, 2.0, the  *)
(* whole-year tenors) are exact in a double, and stay exact here.          *)
(***************************************************************************)
EXTENDS Integers, Sequences, FiniteSets, TLC

VARIABLES fn, args, pc, ret, evals

vars == <<fn, args, pc, ret, evals>>

\* ------------------------------------------------------------------ bounds

\* significant bits of a float of the model (a double has 53)
MantBits == 4

\* at most this many usable tenor columns in the Treasury row
MaxPoints == 3

\* ------------------------------------------------------------ float helpers

RECURSIVE Pow2(_)
Pow2(n) == IF n <= 0 THEN 1 ELSE 2 * Pow2(n - 1)

Min(a, b) == IF a <= b THEN a ELSE b

Zero == [m |-> 0, e |-> 0]

\* the canonical form of m * 2^e: m odd, or zero
RECURSIVE Norm(_, _)
Norm(m, e) ==
    IF m = 0 THEN Zero
    ELSE IF m % 2 = 0 THEN Norm(m \div 2, e + 1)
    ELSE [m |-> m, e |-> e]

Neg(x) == [m |-> -x.m, e |-> x.e]

\* a / b (a >= 0, b > 0) rounded to the nearest integer, ties to even
RoundHalfEven(a, b) ==
    LET q == a \div b
        r == a % b
    IN  IF 2 * r < b THEN q
        ELSE IF 2 * r > b THEN q + 1
        ELSE IF q % 2 = 0 THEN q ELSE q + 1

\* (num / den) * 2^e, num > 0 and den > 0, rounded to MantBits significant bits
RECURSIVE RoundPos(_, _, _)
RoundPos(num, den, e) ==
    IF num >= den * Pow2(MantBits) THEN RoundPos(num, den * 2, e + 1)
    ELSE IF num < den * Pow2(MantBits - 1) THEN RoundPos(num * 2, den, e - 1)
    ELSE Norm(RoundHalfEven(num, den), e)

\* (num / den) * 2^e, den > 0, as the nearest float
Round(num, den, e) ==
    IF num = 0 THEN Zero
    ELSE IF num < 0 THEN Neg(RoundPos(-num, den, e))
    ELSE RoundPos(num, den, e)

\* float(n) of an integer and the float nearest to the decimal n/d
FromInt(n) == Round(n, 1, 0)
FromRat(n, d) == Round(n, d, 0)

One == FromInt(1)

\* x + y, x - y, x * y, x / y: the exact result, rounded once
FAdd(x, y) ==
    LET e == Min(x.e, y.e)
    IN  Round(x.m * Pow2(x.e - e) + y.m * Pow2(y.e - e), 1, e)

FSub(x, y) == FAdd(x, Neg(y))

FMul(x, y) == Round(x.m * y.m, 1, x.e + y.e)

FDiv(x, y) ==
    IF y.m > 0 THEN Round(x.m, y.m, x.e - y.e)
    ELSE Round(-x.m, -y.m, x.e - y.e)

\* x / n for an integer constant n > 0 that a double holds exactly
FDivInt(x, n) == Round(x.m, n, x.e)

\* x <= y and x < y: comparisons are exact
FLe(x, y) ==
    LET e == Min(x.e, y.e)
    IN  x.m * Pow2(x.e - e) <= y.m * Pow2(y.e - e)

FLt(x, y) == ~FLe(y, x)

\* ------------------------------------------------- data.py: risk_free_rate

\* _DEFAULT_TENORS, in the dict's order: column label -> maturity in years
DEFAULT_TENORS ==
    << [col |-> "1 Mo",  tau |-> FromRat(1, 12)],
       [col |-> "2 Mo",  tau |-> FromRat(2, 12)],
       [col |-> "3 Mo",  tau |-> FromRat(3, 12)],
       [col |-> "4 Mo",  tau |-> FromRat(4, 12)],
       [col |-> "6 Mo",  tau |-> FromRat(6, 12)],
       [col |-> "1 Yr",  tau |-> FromInt(1)],
       [col |-> "2 Yr",  tau |-> FromInt(2)],
       [col |-> "3 Yr",  tau |-> FromInt(3)],
       [col |-> "5 Yr",  tau |-> FromInt(5)],
       [col |-> "7 Yr",  tau |-> FromInt(7)],
       [col |-> "10 Yr", tau |-> FromInt(10)],
       [col |-> "20 Yr", tau |-> FromInt(20)],
       [col |-> "30 Yr", tau |-> FromInt(30)] >>

Cols == 1..Len(DEFAULT_TENORS)

Raise(exc) == [kind |-> "raise", exc |-> exc]

Pending == [kind |-> "pending"]

\* y < -0.999999, the literal taken exactly (a double tells it from -1.0).
\* |y| < 1/2 is decided first, which keeps the products small.
TooLow(y) ==
    IF y.m >= 0 THEN FALSE
    ELSE IF y.e < 0 /\ (-y.m) * 2 < Pow2(-y.e) THEN FALSE
    ELSE IF y.e >= 0 THEN y.m * Pow2(y.e) * 1000000 < -999999
    ELSE y.m * 1000000 < -999999 * Pow2(-y.e)

\* mutant: an unrecognized assumption is converted as if it were "annual"
to_continuous_rate_lenient(y, comp) ==
    IF TooLow(y) THEN Raise("ValueError")
    ELSE IF comp = "semiannual"
    THEN [kind |-> "return",
          value |-> [form |-> "2log", x |-> FAdd(One, FDivInt(y, 2))]]
    ELSE [kind |-> "return", value |-> [form |-> "log", x |-> FAdd(One, y)]]

\* _to_continuous_rate(y, comp): ln(x) is kept as the term [form "log", x],
\* 2 * ln(x) as [form "2log", x]
to_continuous_rate(y, comp) ==
    IF TooLow(y) THEN Raise("ValueError")
    ELSE IF comp = "annual"
    THEN [kind |-> "return", value |-> [form |-> "log", x |-> FAdd(One, y)]]
    ELSE IF comp = "semiannual"
    THEN [kind |-> "return",
          value |-> [form |-> "2log", x |-> FAdd(One, FDivInt(y, 2))]]
    ELSE Raise("ValueError")

\* the loop over _DEFAULT_TENORS: the (tau, yield) of every column that the
\* row holds a number for, percent -> decimal; row is defined on those columns
RECURSIVE ExtractTenors(_, _)
ExtractTenors(row, i) ==
    IF i > Len(DEFAULT_TENORS) THEN <<>>
    ELSE (IF i \in DOMAIN row
          THEN << [t |-> DEFAULT_TENORS[i].tau, y |-> FDivInt(row[i], 100)] >>
          ELSE <<>>) \o ExtractTenors(row, i + 1)

\* sorted(zip(tenors, yields), key=lambda x: x[0]): a stable sort
RECURSIVE InsertPair(_, _)
InsertPair(s, p) ==
    IF s = <<>> THEN <<p>>
    ELSE IF FLe(s[Len(s)].t, p.t) THEN Append(s, p)
    ELSE Append(InsertPair(SubSeq(s, 1, Len(s) - 1), p), s[Len(s)])

RECURSIVE SortPairs(_)
SortPairs(s) ==
    IF s = <<>> THEN <<>>
    ELSE InsertPair(SortPairs(SubSeq(s, 1, Len(s) - 1)), s[Len(s)])

\* one bracket: w = (T - t0) / (t1 - t0); yT = y0 + w * (y1 - y0)
Interpolate(T, p0, p1) ==
    LET span == FSub(p1.t, p0.t)
    IN  IF span = Zero THEN Raise("ZeroDivisionError")
        ELSE LET w == FDiv(FSub(T, p0.t), span)
             IN  [kind |-> "bound", yT |-> FAdd(p0.y, FMul(w, FSub(p1.y, p0.y)))]

\* mutant: the bracket test with strict comparisons, ts[i] < T < ts[i+1]
RECURSIVE FindBracketStrict(_, _, _)
FindBracketStrict(T, pairs, i) ==
    IF i > Len(pairs) - 1 THEN [kind |-> "unbound"]
    ELSE IF FLt(pairs[i].t, T) /\ FLt(T, pairs[i + 1].t)
    THEN Interpolate(T, pairs[i], pairs[i + 1])
    ELSE FindBracketStrict(T, pairs, i + 1)

\* for i in range(len(ts) - 1): the first bracket with ts[i] <= T <= ts[i+1];
\* when the loop ends without one, yT was never assigned
RECURSIVE FindBracket(_, _, _)
FindBracket(T, pairs, i) ==
    IF i > Len(pairs) - 1 THEN [kind |-> "unbound"]
    ELSE IF FLe(pairs[i].t, T) /\ FLe(T, pairs[i + 1].t)
    THEN Interpolate(T, pairs[i], pairs[i + 1])
    ELSE FindBracket(T, pairs, i + 1)

\* mutant: beyond the largest tenor the last bracket's line is extended
YieldAtExtrapolated(T, pairs) ==
    IF FLe(T, pairs[1].t) THEN [kind |-> "bound", yT |-> pairs[1].y]
    ELSE IF FLe(pairs[Len(pairs)].t, T)
    THEN Interpolate(T, pairs[Len(pairs) - 1], pairs[Len(pairs)])
    ELSE FindBracket(T, pairs, 1)

\* the clamp, else the bracket scan
YieldAt(T, pairs) ==
    IF FLe(T, pairs[1].t) THEN [kind |-> "bound", yT |-> pairs[1].y]
    ELSE IF FLe(pairs[Len(pairs)].t, T)
    THEN [kind |-> "bound", yT |-> pairs[Len(pairs)].y]
    ELSE FindBracket(T, pairs, 1)

\* the return statement: reading an unassigned yT is an UnboundLocalError
ReturnRate(y, continuous, comp) ==
    IF y.kind = "raise" THEN y
    ELSE IF y.kind = "unbound" THEN Raise("UnboundLocalError")
    ELSE IF continuous THEN to_continuous_rate(y.yT, comp)
    ELSE [kind |-> "return", value |-> [form |-> "nominal", x |-> y.yT]]

\* risk_free_rate(T_years, continuous=, comp_assumption=), from the latest row
\* of the Treasury table on (the download and the parse are the caller's data)
risk_free_rate(T_years, row, continuous, comp_assumption) ==
    IF FLe(T_years, Zero) THEN Raise("ValueError")
    ELSE LET found == ExtractTenors(row, 1)
         IN  IF Len(found) < 2 THEN Raise("RuntimeError")
             ELSE LET pairs == SortPairs(found)
                  IN  ReturnRate(YieldAt(T_years, pairs), continuous, comp_assumption)

\* ---- inputs of risk_free_rate

\* rows of the Treasury table, in hundredths of a percent as printed, one
\* value per column of DEFAULT_TENORS: a near-zero curve, and a row with
\* corrupt cells below -100 %
Curves ==
    << <<4, 1, 2, 4, 5, 8, 15, 32, 78, 124, 152, 207, 226>>,
       <<-10050, -15000, 250, -10050, 300, -20000, 310, 320, -10050, 330, 340,
         -15000, 350>> >>

\* the row: float(val) of the cells that are present and not NaN
RowOf(c, present) == [i \in present |-> FromRat(Curves[c][i], 100)]

Presents == {p \in SUBSET Cols : Cardinality(p) <= MaxPoints}

\* T_years: zero, below the shortest tenor, every tenor, points strictly
\* inside a bracket, beyond the longest tenor
TVals ==
    {Zero, FromRat(1, 24), FromRat(1, 8), FromRat(3, 2), FromInt(40)}
    \cup {DEFAULT_TENORS[i].tau : i \in Cols}

\* a few of them, for the calls that vary the conversion
TFew == {Zero, FromRat(1, 24), FromRat(3, 12), FromRat(3, 2), FromInt(40)}

Comps == {"annual", "semiannual", "monthly"}

NoEvals == [d1 |-> 0, d2 |-> 0]

RateCall(t, c, p, b, k) ==
    /\ fn = "risk_free_rate"
    /\ args = [T_years |-> t, row |-> RowOf(c, p), continuous |-> b,
               comp_assumption |-> k]
    /\ pc = "call"
    /\ ret = Pending
    /\ evals = NoEvals

\* risk_free_rate(T, continuous=False): the interpolated nominal yield
InitInterp ==
    \E t \in TVals, c \in 1..Len(Curves), p \in Presents :
        RateCall(t, c, p, FALSE, "annual")

\* risk_free_rate(T, continuous=b, comp_assumption=k)
InitRate ==
    \E t \in TFew, c \in 1..Len(Curves), p \in Presents, b \in BOOLEAN, k \in Comps :
        RateCall(t, c, p, b, k)

RiskFreeRate ==
    /\ fn = "risk_free_rate"
    /\ pc = "call"
    /\ ret' = risk_free_rate(args.T_years, args.row, args.continuous,
                             args.comp_assumption)
    /\ pc' = "done"
    /\ UNCHANGED <<fn, args, evals>>

SpecInterp == InitInterp /\ [][RiskFreeRate]_vars

SpecRate == InitRate /\ [][RiskFreeRate]_vars

\* ---------------------------------------- data.py: choose_expiration_from_T

Return(v) == [kind |-> "return", value |-> v]

Abs(x) == IF x < 0 THEN -x ELSE x

\* mutant: a later element with an equal key replaces the one held
RECURSIVE MinScanLast(_, _, _, _)
MinScanLast(seq, c, i, best) ==
    IF i > Len(seq) THEN best
    ELSE IF Abs(seq[i] - c) <= Abs(best - c) THEN MinScanLast(seq, c, i + 1, seq[i])
    ELSE MinScanLast(seq, c, i + 1, best)

\* min(seq, key=lambda x: abs(x - c)): the scan keeps the element it holds
\* unless a later one has a strictly smaller key, so the first minimum wins
RECURSIVE MinScan(_, _, _, _)
MinScan(seq, c, i, best) ==
    IF i > Len(seq) THEN best
    ELSE IF Abs(seq[i] - c) < Abs(best - c) THEN MinScan(seq, c, i + 1, seq[i])
    ELSE MinScan(seq, c, i + 1, best)

MinByDistance(seq, c) == MinScan(seq, c, 2, seq[1])

\* int(round(T_years * 365)) for T_years = n/d > 0: Python's round() takes a
\* tie to the even integer.  T_years is an exact fraction here, so that the
\* ties are reached.
TargetDays(T_years) == RoundHalfEven(T_years.n * 365, T_years.d)

\* choose_expiration_from_T, given today and the dates _parse_expirations
\* returns (dates are day numbers, in the provider's order)
choose_expiration_from_T(T_years, today, expirations) ==
    IF T_years.n <= 0 THEN Raise("ValueError")
    ELSE LET target == today + TargetDays(T_years)
         IN  IF expirations = <<>> THEN Raise("RuntimeError")
             ELSE Return(MinByDistance(expirations, target))

\* ---- inputs of choose_expiration_from_T

\* longest list of expirations
MaxExpirations == 3

\* largest T_years, in half days (1/730 year)
MaxHalfDays == 8

Today == 10

Dates == (Today - 1)..(Today + 5)

RECURSIVE SeqsUpTo(_, _)
SeqsUpTo(S, n) ==
    IF n = 0 THEN {<<>>}
    ELSE LET shorter == SeqsUpTo(S, n - 1)
         IN  shorter \cup {Append(q, x) : q \in shorter, x \in S}

InitExpiration ==
    /\ fn = "choose_expiration_from_T"
    /\ \E h \in 0..MaxHalfDays, x \in SeqsUpTo(Dates, MaxExpirations) :
          args = [T_years |-> [n |-> h, d |-> 730], today |-> Today,
                  expirations |-> x]
    /\ pc = "call"
    /\ ret = Pending
    /\ evals = NoEvals

ChooseExpiration ==
    /\ fn = "choose_expiration_from_T"
    /\ pc = "call"
    /\ ret' = choose_expiration_from_T(args.T_years, args.today, args.expirations)
    /\ pc' = "done"
    /\ UNCHANGED <<fn, args, evals>>

\* ------------------------------------------ data.py: strike_from_expiration

\* sorted(set): the ascending sequence of a set of numbers
RECURSIVE SortAsc(_)
SortAsc(S) ==
    IF S = {} THEN <<>>
    ELSE LET lo == CHOOSE x \in S : \A y \in S : x <= y
         IN  <<lo>> \o SortAsc(S \ {lo})

\* spot: fast_info's last_price, or the last close when that is None
SpotOf(last_price, close) == IF last_price.some THEN last_price.v ELSE close

\* Prices are whole dollars and pct is in hundredths (pct 5 is the argument
\* 0.05), so spot * (1 + pct) is S * (100 + pct) / 100 and the comparisons
\* with it are made on the common denominator.

\* min(strikes, key=lambda k: abs(k - S))
AtmStrike(strikes, S) == MinByDistance(strikes, S)

\* mutant: only strikes strictly above the target are candidates
OtmStrikeStrict(strikes, S, pct) ==
    LET Above(k) == 100 * k > S * (100 + pct)
        candidates == SelectSeq(strikes, Above)
    IN  IF candidates # <<>> THEN candidates[1] ELSE strikes[Len(strikes)]

\* target = S * (1.0 + pct); candidates[0] if candidates else strikes[-1]
OtmStrike(strikes, S, pct) ==
    LET AtOrAbove(k) == 100 * k >= S * (100 + pct)
        candidates == SelectSeq(strikes, AtOrAbove)
    IN  IF candidates # <<>> THEN candidates[1] ELSE strikes[Len(strikes)]

\* mutant: candidates[0] in place of candidates[-1]
ItmStrikeFirst(strikes, S, pct) ==
    LET AtOrBelow(k) == 100 * k <= S * (100 - pct)
        candidates == SelectSeq(strikes, AtOrBelow)
    IN  IF candidates # <<>> THEN candidates[1] ELSE strikes[1]

\* target = S * (1.0 - pct); candidates[-1] if candidates else strikes[0]
ItmStrike(strikes, S, pct) ==
    LET AtOrBelow(k) == 100 * k <= S * (100 - pct)
        candidates == SelectSeq(strikes, AtOrBelow)
    IN  IF candidates # <<>> THEN candidates[Len(candidates)] ELSE strikes[1]

\* mutant: pct is validated before the rule is looked at
PickStrikePctFirst(strikes, S, strike_rule, pct) ==
    IF pct <= 0 THEN Raise("ValueError")
    ELSE IF strike_rule = "ATM" THEN Return(AtmStrike(strikes, S))
    ELSE IF strike_rule = "OTM_PCT" THEN Return(OtmStrike(strikes, S, pct))
    ELSE IF strike_rule = "ITM_PCT" THEN Return(ItmStrike(strikes, S, pct))
    ELSE Raise("ValueError")

\* the rule dispatch: ATM is answered before pct is looked at
PickStrike(strikes, S, strike_rule, pct) ==
    IF strike_rule = "ATM" THEN Return(AtmStrike(strikes, S))
    ELSE IF pct <= 0 THEN Raise("ValueError")
    ELSE IF strike_rule = "OTM_PCT" THEN Return(OtmStrike(strikes, S, pct))
    ELSE IF strike_rule = "ITM_PCT" THEN Return(ItmStrike(strikes, S, pct))
    ELSE Raise("ValueError")

\* strike_from_expiration, given the chain's call and put strikes and the spot
strike_from_expiration(calls, puts, last_price, close, strike_rule, pct) ==
    LET S == SpotOf(last_price, close)
        strikes == SortAsc(calls \cup puts)
    IN  IF strikes = <<>> THEN Raise("RuntimeError")
        ELSE PickStrike(strikes, S, strike_rule, pct)

\* ---- inputs of strike_from_expiration

\* most strikes on the call side, and on the put side, of the chain
MaxStrikes == 3

StrikeVals == {90, 95, 100, 105, 110}

SpotVals == {100, 102, 115}

Ladders == {k \in SUBSET StrikeVals : Cardinality(k) <= MaxStrikes}

Rules == {"ATM", "OTM_PCT", "ITM_PCT", "DELTA"}

PctVals == {-5, 0, 5, 12}

None == [some |-> FALSE]

Some(v) == [some |-> TRUE, v |-> v]

InitStrike ==
    /\ fn = "strike_from_expiration"
    /\ \E c \in Ladders, p \in Ladders, s \in SpotVals, known \in BOOLEAN,
          rule \in Rules, q \in PctVals :
          args = [calls |-> c, puts |-> p,
                  last_price |-> IF known THEN Some(s) ELSE None,
                  close |-> IF known THEN 100 ELSE s,
                  strike_rule |-> rule, pct |-> q]
    /\ pc = "call"
    /\ ret = Pending
    /\ evals = NoEvals

StrikeFromExpiration ==
    /\ fn = "strike_from_expiration"
    /\ pc = "call"
    /\ ret' = strike_from_expiration(args.calls, args.puts, args.last_price,
                                     args.close, args.strike_rule, args.pct)
    /\ pc' = "done"
    /\ UNCHANGED <<fn, args, evals>>

\* --------------------------------- data.py: calculate_annualized_volatility

RECURSIVE Log2(_)
Log2(p) == IF p <= 1 THEN 0 ELSE 1 + Log2(p \div 2)

RECURSIVE SumSeq(_)
SumSeq(q) == IF q = <<>> THEN 0 ELSE Head(q) + SumSeq(Tail(q))

\* np.log(Close / Close.shift(1)).dropna(), in units of ln 2: the closes of
\* the model are powers of two
LogReturns(closes) ==
    [i \in 1..(Len(closes) - 1) |-> Log2(closes[i + 1]) - Log2(closes[i])]

\* log_returns.std() * np.sqrt(trading_days): the sample standard deviation
\* (n - 1 in the denominator), kept as the term ln 2 * sqrt(num / den); one
\* return alone has no sample deviation, and pandas gives NaN
AnnualizedStd(x, trading_days) ==
    LET n == Len(x)
        total == SumSeq(x)
        sq == [i \in 1..n |-> (n * x[i] - total) * (n * x[i] - total)]
    IN  IF n < 2 THEN [form |-> "nan"]
        ELSE [form |-> "ln2*sqrt", num |-> trading_days * SumSeq(sq),
              den |-> n * n * (n - 1)]

\* mutant: only an empty history is refused
calculate_annualized_volatility_empty_only(closes, download_raises, trading_days) ==
    IF download_raises THEN Return(None)
    ELSE IF Len(closes) < 1 THEN Return(None)
    ELSE Return(AnnualizedStd(LogReturns(closes), trading_days))

\* calculate_annualized_volatility, given what yf.download hands back (the
\* closes, or an exception): every failure is printed and answered with None
calculate_annualized_volatility(closes, download_raises, trading_days) ==
    IF download_raises THEN Return(None)
    ELSE IF Len(closes) < 2 THEN Return(None)
    ELSE Return(AnnualizedStd(LogReturns(closes), trading_days))

\* ---- inputs of calculate_annualized_volatility

\* longest price history
MaxPrices == 3

CloseVals == {1, 2, 4}

InitVolatility ==
    /\ fn = "calculate_annualized_volatility"
    /\ \E c \in SeqsUpTo(CloseVals, MaxPrices), x \in BOOLEAN :
          args = [closes |-> c, download_raises |-> x, trading_days |-> 252]
    /\ pc = "call"
    /\ ret = Pending
    /\ evals = NoEvals

CalculateVolatility ==
    /\ fn = "calculate_annualized_volatility"
    /\ pc = "call"
    /\ ret' = calculate_annualized_volatility(args.closes, args.download_raises,
                                              args.trading_days)
    /\ pc' = "done"
    /\ UNCHANGED <<fn, args, evals>>

\* -------------------------------------------- model.py: BlackScholesModel

\* The prices are real-valued expressions in log, sqrt, exp and the normal
\* cdf; they are kept as terms, built as the source builds them.  evals
\* counts the executions of d1() and d2().
Op1(op, a) == [op |-> op, a |-> a]

Op2(op, a, b) == [op |-> op, a |-> a, b |-> b]

\* d1(self): [val, evals]
d1(self, ev) ==
    LET first_term == Op1("log", Op2("/", self.S, self.K))
        second_term ==
            Op2("*", Op2("+", self.r, Op2("*", "0.5", Op2("**", self.sigma, 2))),
                self.T)
        numerator == Op2("+", first_term, second_term)
        denominator == Op2("*", self.sigma, Op1("sqrt", self.T))
    IN  [val |-> Op2("/", numerator, denominator),
         evals |-> [ev EXCEPT !.d1 = @ + 1]]

\* mutant: d2 takes d1 from a cache and does not run d1() again
d2_cached(self, ev) ==
    [val |-> Op2("-", d1(self, ev).val, Op2("*", self.sigma, Op1("sqrt", self.T))),
     evals |-> [ev EXCEPT !.d2 = @ + 1]]

\* d2(self) calls self.d1()
d2(self, ev) ==
    LET a == d1(self, ev)
    IN  [val |-> Op2("-", a.val, Op2("*", self.sigma, Op1("sqrt", self.T))),
         evals |-> [a.evals EXCEPT !.d2 = @ + 1]]

Discount(self) == Op1("exp", Op2("*", Op1("neg", self.r), self.T))

\* call_price(self): its locals d1 and d2, and the price
call_price(self, ev) ==
    LET a == d1(self, ev)
        b == d2(self, a.evals)
    IN  [d1 |-> a.val, d2 |-> b.val,
         price |-> Op2("-", Op2("*", self.S, Op1("cdf", a.val)),
                       Op2("*", Op2("*", self.K, Discount(self)),
                           Op1("cdf", b.val))),
         evals |-> b.evals]

\* put_price(self)
put_price(self, ev) ==
    LET a == d1(self, ev)
        b == d2(self, a.evals)
    IN  [d1 |-> a.val, d2 |-> b.val,
         price |-> Op2("-", Op2("*", Op2("*", Op1("cdf", Op1("neg", b.val)),
                                         self.K), Discount(self)),
                       Op2("*", Op1("cdf", Op1("neg", a.val)), self.S)),
         evals |-> b.evals]

\* ---- inputs of BlackScholesModel: S and K in dollars, T in years, r and
\* sigma in percent

InitModel ==
    /\ fn = "BlackScholesModel"
    /\ \E S \in {90, 100, 110}, K \in {95, 100, 105}, T \in {1, 2},
          r \in {0, 5}, sigma \in {10, 20, 40} :
          args = [S |-> S, K |-> K, T |-> T, r |-> r, sigma |-> sigma]
    /\ pc = "constructed"
    /\ ret = [call |-> Pending, put |-> Pending]
    /\ evals = NoEvals

\* model.call_price(), as main() calls it first
CallPrice ==
    /\ fn = "BlackScholesModel"
    /\ pc = "constructed"
    /\ LET c == call_price(args, evals)
       IN  /\ ret' = [ret EXCEPT !.call = [d1 |-> c.d1, d2 |-> c.d2, price |-> c.price]]
           /\ evals' = c.evals
    /\ pc' = "call_priced"
    /\ UNCHANGED <<fn, args>>

\* model.put_price(), on the same object
PutPrice ==
    /\ fn = "BlackScholesModel"
    /\ pc = "call_priced"
    /\ LET c == put_price(args, evals)
       IN  /\ ret' = [ret EXCEPT !.put = [d1 |-> c.d1, d2 |-> c.d2, price |-> c.price]]
           /\ evals' = c.evals
    /\ pc' = "done"
    /\ UNCHANGED <<fn, args>>

\* ------------------------------------------------------- specifications

Init ==
    \/ InitInterp
    \/ InitRate
    \/ InitExpiration
    \/ InitStrike
    \/ InitVolatility
    \/ InitModel

Next ==
    \/ RiskFreeRate
    \/ ChooseExpiration
    \/ StrikeFromExpiration
    \/ CalculateVolatility
    \/ CallPrice
    \/ PutPrice

Spec == Init /\ [][Next]_vars

\* the selection and estimation helpers that answer an empty data set
NextData == ChooseExpiration \/ StrikeFromExpiration \/ CalculateVolatility

SpecData ==
    (InitExpiration \/ InitStrike \/ InitVolatility) /\ [][NextData]_vars

NextModel == CallPrice \/ PutPrice

SpecModel == InitModel /\ [][NextModel]_vars

\* ------------------------------------------------ claims on risk_free_rate

Tau(i) == DEFAULT_TENORS[i].tau

\* the decimal yield of usable column i of the row
YieldOf(i) == FDivInt(args.row[i], 100)

Usable == DOMAIN args.row

Shortest == CHOOSE i \in Usable : \A j \in Usable : FLe(Tau(i), Tau(j))

Longest == CHOOSE i \in Usable : \A j \in Usable : FLe(Tau(j), Tau(i))

Nominal(y) == [kind |-> "return", value |-> [form |-> "nominal", x |-> y]]

\* a finished call that got as far as the interpolation
Interpolated ==
    /\ fn = "risk_free_rate"
    /\ pc = "done"
    /\ FLt(Zero, args.T_years)
    /\ Cardinality(Usable) >= 2

\* the sorted points and the yield the call interpolated
SortedPoints == SortPairs(ExtractTenors(args.row, 1))

\* C1: with continuous=False, T_years at or below the smallest tenor returns
\* exactly the smallest tenor's yield, and T_years at or above the largest
\* tenor returns exactly the largest tenor's yield.
C1_ClampPolicy ==
    (Interpolated /\ ~args.continuous) =>
        /\ FLe(args.T_years, Tau(Shortest)) => ret = Nominal(YieldOf(Shortest))
        /\ FLe(Tau(Longest), args.T_years) => ret = Nominal(YieldOf(Longest))

\* C1 witness: a T_years beyond the largest of three tenors came back as the
\* largest tenor's yield, which differs from the smallest tenor's
C1_Witness ==
    /\ Interpolated /\ ~args.continuous
    /\ Cardinality(Usable) = 3
    /\ FLt(Tau(Longest), args.T_years)
    /\ ret = Nominal(YieldOf(Longest))
    /\ YieldOf(Longest) # YieldOf(Shortest)

\* C2: with continuous=False, a T_years equal to one of the usable tenors
\* returns that tenor's yield exactly.
C2_ExactAtTenor ==
    (Interpolated /\ ~args.continuous) =>
        \A i \in Usable : args.T_years = Tau(i) => ret = Nominal(YieldOf(i))

\* C10: for T_years strictly between the smallest and the largest usable
\* tenor, some bracket i has ts[i] <= T_years <= ts[i+1] and ts[i] < ts[i+1],
\* and the call ends neither with yT unassigned nor in a division by zero.
C10_BracketFound ==
    (/\ Interpolated
     /\ FLt(Tau(Shortest), args.T_years)
     /\ FLt(args.T_years, Tau(Longest))) =>
        /\ \E i \in 1..(Len(SortedPoints) - 1) :
              /\ FLe(SortedPoints[i].t, args.T_years)
              /\ FLe(args.T_years, SortedPoints[i + 1].t)
              /\ FLt(SortedPoints[i].t, SortedPoints[i + 1].t)
        /\ ret.kind = "return" \/ ret = Raise("ValueError")

\* C10 witness: a T_years strictly inside the second bracket of three points,
\* equal to no tenor, came back interpolated
C10_Witness ==
    /\ Interpolated
    /\ Cardinality(Usable) = 3
    /\ FLt(SortedPoints[2].t, args.T_years)
    /\ FLt(args.T_years, SortedPoints[3].t)
    /\ ret.kind = "return"
    /\ ret.value.x # SortedPoints[2].y
    /\ ret.value.x # SortedPoints[3].y

Recognized == {"annual", "semiannual"}

\* C8 as claimed: no call of risk_free_rate with an unrecognized compounding
\* assumption returns a rate.
C8_UnrecognizedNeverReturns ==
    (fn = "risk_free_rate" /\ pc = "done" /\ ret.kind = "return") =>
        args.comp_assumption \in Recognized

\* C8 as amended: when continuous=True the conversion is called on the
\* interpolated yield and raises if that yield is below -0.999999 or the
\* compounding assumption is unrecognized; when continuous=False it is not
\* called, and the nominal yield is returned whatever the assumption is.
C8_ConversionRejects ==
    Interpolated =>
        LET y == YieldAt(args.T_years, SortedPoints)
        IN  IF args.continuous
            THEN (TooLow(y.yT) \/ args.comp_assumption \notin Recognized)
                    => ret = Raise("ValueError")
            ELSE ret = Nominal(y.yT)

\* C8 witness: a continuous call with an acceptable yield and the assumption
\* "monthly" raised
C8_Witness ==
    /\ Interpolated
    /\ args.continuous
    /\ args.comp_assumption = "monthly"
    /\ ~TooLow(YieldAt(args.T_years, SortedPoints).yT)
    /\ ret = Raise("ValueError")

\* ------------------------------------- claims on the selection helpers

ExpirationDone == fn = "choose_expiration_from_T" /\ pc = "done"

\* target_date = today + round(T_years * 365) days
TargetDate ==
    args.today + (LET q == (args.T_years.n * 365) \div args.T_years.d
                      r == (args.T_years.n * 365) % args.T_years.d
                  IN  IF 2 * r < args.T_years.d THEN q
                      ELSE IF 2 * r > args.T_years.d THEN q + 1
                      ELSE q + (q % 2))

DaysOff(d) == IF d >= TargetDate THEN d - TargetDate ELSE TargetDate - d

\* C4: for T_years > 0 and a non-empty list, the date returned is the first
\* date of the list, in the list's order, whose distance in days to
\* today + round(T_years * 365) is the least over the whole list.
C4_NearestExpiration ==
    (ExpirationDone /\ args.T_years.n > 0 /\ args.expirations # <<>>) =>
        /\ ret.kind = "return"
        /\ \E i \in DOMAIN args.expirations :
              /\ ret.value = args.expirations[i]
              /\ \A j \in DOMAIN args.expirations :
                    DaysOff(args.expirations[i]) <= DaysOff(args.expirations[j])
              /\ \A j \in 1..(i - 1) :
                    DaysOff(args.expirations[j]) > DaysOff(args.expirations[i])

\* C4 witness: T_years * 365 is a tie of round(), and of the two dates one
\* day either side of the target the later one, listed first, is returned
C4_Witness ==
    /\ ExpirationDone
    /\ args.T_years = [n |-> 5, d |-> 730]
    /\ Len(args.expirations) = 3
    /\ args.expirations[1] = TargetDate + 2
    /\ args.expirations[2] = TargetDate + 1
    /\ args.expirations[3] = TargetDate - 1
    /\ ret = Return(TargetDate + 1)

StrikeDone == fn = "strike_from_expiration" /\ pc = "done"

Ladder == args.calls \cup args.puts

Spot == IF args.last_price.some THEN args.last_price.v ELSE args.close

SetMin(S) == CHOOSE x \in S : \A y \in S : x <= y

SetMax(S) == CHOOSE x \in S : \A y \in S : x >= y

C6_ItmStrike ==
    (StrikeDone /\ args.strike_rule = "ITM_PCT" /\ args.pct > 0 /\ Ladder # {}) =>
        LET atOrBelow == {k \in Ladder : 100 * k <= Spot * (100 - args.pct)}
        IN  ret = Return(IF atOrBelow # {} THEN SetMax(atOrBelow)
                         ELSE SetMin(Ladder))

\* C6 witness: strikes 90..110, spot 100, pct 0.12: no strike is <= 88 and
\* the result is 90
C6_Witness ==
    /\ StrikeDone /\ args.strike_rule = "ITM_PCT"
    /\ Ladder = {90, 95, 100, 105, 110}
    /\ Spot = 100 /\ args.pct = 12
    /\ ret = Return(90)

\* C7: under ATM, for a non-empty ladder and whatever pct is, the result is
\* a strike of the ladder at the least distance from the spot, and of two
\* strikes equally close the one the ascending ladder lists first.
C7_AtmStrike ==
    (StrikeDone /\ args.strike_rule = "ATM" /\ Ladder # {}) =>
        LET Off(k) == IF k >= Spot THEN k - Spot ELSE Spot - k
            nearest == {k \in Ladder : \A x \in Ladder : Off(k) <= Off(x)}
        IN  ret = Return(SetMin(nearest))

\* C7 witness: pct is 0, as in main(), the spot 100 lies midway between the
\* strikes 95 and 105, and 95 is returned
C7_Witness ==
    /\ StrikeDone /\ args.strike_rule = "ATM"
    /\ args.pct = 0
    /\ Spot = 100
    /\ Ladder = {90, 95, 105}
    /\ ret = Return(95)

VolatilityDone == fn = "calculate_annualized_volatility" /\ pc = "done"

\* C3 as claimed: an empty strike ladder, an empty expiration list and fewer
\* than 2 price points each end in a raised error.
C3_AllThreeRaise ==
    /\ (StrikeDone /\ Ladder = {}) => ret.kind = "raise"
    /\ (ExpirationDone /\ args.expirations = <<>>) => ret.kind = "raise"
    /\ (VolatilityDone /\ Len(args.closes) < 2) => ret.kind = "raise"

\* C3 as amended: an empty strike ladder and an empty expiration list
\* (T_years > 0) each raise RuntimeError; fewer than 2 price points raise
\* nothing: calculate_annualized_volatility returns None.
C3_EmptyInputs ==
    /\ (StrikeDone /\ Ladder = {}) => ret = Raise("RuntimeError")
    /\ (ExpirationDone /\ args.expirations = <<>>) =>
            /\ ret.kind = "raise"
            /\ args.T_years.n > 0 => ret = Raise("RuntimeError")
    /\ (VolatilityDone /\ Len(args.closes) < 2) => ret = Return(None)

\* C3 witness: the download succeeded with a single price point, and the
\* call returned None
C3_Witness ==
    /\ VolatilityDone
    /\ ~args.download_raises
    /\ Len(args.closes) = 1
    /\ ret = Return(None)

\* --------------------------------------------- claims on BlackScholesModel

BothPriced == fn = "BlackScholesModel" /\ pc = "done"

\* C9 as claimed: for one model, d1 is computed once and d2 is computed once,
\* and both prices use that pair.
C9_ComputedOnce ==
    BothPriced =>
        /\ evals.d1 = 1 /\ evals.d2 = 1
        /\ ret.call.d1 = ret.put.d1 /\ ret.call.d2 = ret.put.d2

\* C9 as amended: each price recomputes the pair from the same unchanged
\* fields: d1() runs twice per price (once directly, once inside d2()) and
\* d2() once, so after both prices d1() has run 4 times and d2() twice; the
\* values the two prices use are equal.
C9_RecomputedEqual ==
    /\ (fn = "BlackScholesModel" /\ pc = "call_priced") =>
            evals = [d1 |-> 2, d2 |-> 1]
    /\ BothPriced =>
        /\ evals = [d1 |-> 4, d2 |-> 2]
        /\ ret.call.d1 = ret.put.d1 /\ ret.call.d2 = ret.put.d2

\* C9 witness: both prices of an out-of-the-money call are computed
C9_Witness ==
    /\ BothPriced
    /\ args.S < args.K
    /\ ret.call.d1 = ret.put.d1
    /\ ret.call.d2 = ret.put.d2
    /\ evals = [d1 |-> 4, d2 |-> 2]

====
